---- MODULE Spec2Model ----
(***************************************************************************)
(* Model of the ABX mock exchange client (src/abx_client.cpp).             *)
(*                                                                         *)
(* The client connects, sends a "stream all" request, reads 17-byte        *)
(* response frames until the server closes, computes the sequence numbers  *)
(* missing below the last one received, requests each of them over a fresh *)
(* connection, sorts everything by sequence and writes output.json.        *)
(*                                                                         *)
(* The server is the environment: what it answers is a nondeterministic    *)
(* choice among the events of PrimaryEvents / RecoveryEvents.  The output  *)
(* sink is the list of packets handed to the JSON writer (lines 148-155);  *)
(* JSON serialisation itself is library code and is taken to succeed (the  *)
(* frames of the modelled server hold ASCII symbols and sides).            *)
(***************************************************************************)
EXTENDS Integers, Sequences, FiniteSets, TLC

(***************************************************************************)
(* Bounds of the model.                                                    *)
(***************************************************************************)
\* Largest sequence number the modelled server puts in a frame.
MaxSeq == 4
\* Largest number of frames the modelled server streams in the primary phase.
MaxStream == 3
\* The request encoder is exercised on the sequence numbers 0..MaxReqSeq
\* (and on a few larger ones, see ReqSeqs).
MaxReqSeq == 600

(***************************************************************************)
(* Program constants.                                                      *)
(***************************************************************************)
\* std::vector<char> buffer(17)
PacketSize == 17
\* sendRequest(socket, 1)
CallStreamAll == 1
\* sendRequest(retry_socket, 2, seq)
CallResend == 2
\* enum class Side : char { Buy = 'B', Sell = 'S' }
SideBuy == 66
SideSell == 83

(***************************************************************************)
(* Bytes and chars.  A byte on the wire is 0..255; a char in a             *)
(* std::vector<char> is modelled as signed, -128..127.                     *)
(***************************************************************************)
\* static_cast<char>(b): the char holding the byte b
ToChar(b) == IF b % 256 >= 128 THEN (b % 256) - 256 ELSE b % 256

\* static_cast<unsigned char>(c)
ToUChar(c) == (c + 256) % 256

\* the implicit conversion of an argument to a uint8_t parameter
ToUint8(x) == x % 256

(***************************************************************************)
(* readInt32 (lines 41-46).  data is the storage of the receive buffer,    *)
(* offset is 0-based as in the source.  The shifted bytes occupy disjoint  *)
(* bit ranges, so the bitwise or is their sum.                             *)
(***************************************************************************)
readInt32_Signed(data, offset) ==
    data[offset + 1] * 16777216
  + data[offset + 2] * 65536
  + data[offset + 3] * 256
  + data[offset + 4]

readInt32(data, offset) ==
    ToUChar(data[offset + 1]) * 16777216
  + ToUChar(data[offset + 2]) * 65536
  + ToUChar(data[offset + 3]) * 256
  + ToUChar(data[offset + 4])

(***************************************************************************)
(* sendRequest (lines 49-53): the two bytes written to the socket.  Both   *)
(* parameters are uint8_t, so the caller's 32-bit sequence is narrowed.    *)
(***************************************************************************)
sendRequest_Clamp(callType, sequence) ==
    << ToUChar(ToChar(ToUint8(callType))),
       IF sequence > 255 THEN 255 ELSE sequence >>

sendRequest(callType, sequence) ==
    << ToUChar(ToChar(ToUint8(callType))), ToUChar(ToChar(ToUint8(sequence))) >>

(***************************************************************************)
(* receiveResponse (lines 56-71).  An event is what read_some does: it     *)
(* reports eof, another error, or delivers 1..17 bytes.  The result is     *)
(* either an exception or the buffer resized to the bytes read.  storage   *)
(* is the 17 value-initialised chars allocated at line 57, of which the    *)
(* first Len(bytes) were overwritten; resize(length) keeps the allocation. *)
(***************************************************************************)
Storage(bytes) ==
    [i \in 1..PacketSize |-> IF i <= Len(bytes) THEN ToChar(bytes[i]) ELSE 0]

receiveResponse(ev) ==
    IF ev.kind = "eof" THEN [threw |-> FALSE, size |-> 0, storage |-> Storage(<<>>)]
    ELSE IF ev.kind = "error" THEN [threw |-> TRUE, size |-> 0, storage |-> Storage(<<>>)]
    ELSE [threw |-> FALSE, size |-> Len(ev.bytes), storage |-> Storage(ev.bytes)]

(***************************************************************************)
(* parsePacket (lines 74-89).  It reads all 17 positions whatever the size *)
(* of data; a position at or beyond data.size() is read out of the         *)
(* vector's bounds, from the storage (see ReadOutOfBounds).                *)
(***************************************************************************)
parsePacket(storage) ==
    [ symbol   |-> << storage[1], storage[2], storage[3], storage[4] >>,
      side     |-> storage[5],
      quantity |-> readInt32(storage, 5),
      price    |-> readInt32(storage, 9),
      sequence |-> readInt32(storage, 13) ]

\* parsePacket reads beyond data.size(): undefined behaviour.
ReadOutOfBounds(resp) == resp.size > 0 /\ resp.size < PacketSize


(***************************************************************************)
(* The server (environment).  A response frame is 17 bytes:                *)
(* symbol[4] side[1] quantity[4] price[4] sequence[4], big-endian.         *)
(***************************************************************************)
BE32(n) == << n \div 16777216, (n \div 65536) % 256, (n \div 256) % 256, n % 256 >>

\* "ABCD"
Sym == << 65, 66, 67, 68 >>

\* 'X', a side byte that is neither 'B' nor 'S'
BadSides == {88}

Frame(side, q, p, s) == Sym \o << side >> \o BE32(q) \o BE32(p) \o BE32(s)

\* The full frames the modelled server sends: one buy per sequence number,
\* a sell, and one frame whose side byte is invalid.
FullFrames ==
    { Frame(SideBuy, 200, 258, s) : s \in 0..MaxSeq }
    \cup { Frame(SideSell, 200, 258, 2) }
    \cup { Frame(b, 200, 258, 1) : b \in BadSides }

\* read_some may deliver fewer than 17 bytes: the head of a frame.
ShortLens == {4, 16}

ShortReads == { SubSeq(Frame(SideBuy, 200, 258, 1), 1, n) : n \in ShortLens }

\* What read_some can do on the primary connection.
PrimaryEvents ==
    { [kind |-> "eof", bytes |-> << >>], [kind |-> "error", bytes |-> << >>] }
    \cup { [kind |-> "bytes", bytes |-> b] : b \in FullFrames \cup ShortReads }

\* What read_some can do on the recovery connection opened for sequence s:
\* the server closes, the transport fails, or it delivers the requested
\* record, a record with another sequence number, or a short read.
RecoveryEvents(s) ==
    { [kind |-> "eof", bytes |-> << >>], [kind |-> "error", bytes |-> << >>] }
    \cup { [kind |-> "bytes", bytes |-> b] :
             b \in { Frame(SideBuy, 200, 258, s),
                     Frame(SideBuy, 200, 258, (s % MaxSeq) + 1),
                     SubSeq(Frame(SideBuy, 200, 258, s), 1, 16) } }

\* How far apart the two sequence numbers of a pair of requests are.
PairOffsets == {1, 255, 256, 512}

\* The four bytes of a 32-bit field the response decoder is exercised on.
\* (The first byte stays below 128: the model checker's integers end at
\* 2^31 - 1.)
WordBytes ==
    { << 0, 0, 0, 0 >>, << 0, 0, 1, 2 >>, << 127, 255, 255, 255 >>,
      << 1, 128, 200, 255 >>, << 0, 255, 0, 128 >> }

\* The full frames the response decoder is exercised on.
DecodeFrames ==
    { sym \o << side >> \o q \o p \o s :
        sym \in { Sym, << 32, 0, 200, 255 >> }, side \in { SideBuy, SideSell },
        q \in WordBytes, p \in WordBytes, s \in WordBytes }

\* The 32-bit sequence numbers the request encoder is exercised on.
ReqSeqs == (0..MaxReqSeq) \cup { 65536 + k : k \in 0..3 } \cup { 16777216 + k : k \in 0..3 }

(***************************************************************************)
(* State.                                                                  *)
(***************************************************************************)
VARIABLES
    pc,                 \* position in fetchAndSaveData / main
    err,                \* what main's catch block caught ("none": nothing)
    socketOpen,         \* the primary socket (line 94) is connected
    retryOpen,          \* a retry_socket (line 132) is connected
    sent,               \* request frames written to the server, in order
    packets,            \* std::vector<Packet> packets
    receivedSequences,  \* std::set<uint32_t> receivedSequences
    lastSeq,            \* uint32_t lastSeq
    missingSequences,   \* std::set<uint32_t> missingSequences
    output,             \* the packets handed to the output file
    written,            \* output.json has been written
    log,                \* the LOG_INFO / LOG_ERROR lines printed, in order
    shortIdx,           \* history: indexes of packets parsed from a short read
    primary,            \* history: packets as they were when the stream ended
    attempts,           \* history: one entry per iteration of the recovery loop
    cCall,              \* request encoder: the call made (0: none yet)
    cSeq,               \* request encoder: the 32-bit sequence passed in
    cFrame,             \* request encoder: the frame produced
    cSeqB,              \* request encoder: the sequence of a second request
    cFrameB,            \* request encoder: the frame of the second request
    dFrame,             \* response decoder: the 17 bytes received
    dRec,               \* response decoder: the Packet parsed from them
    dState              \* response decoder: "raw" or "decoded"

vars == << pc, err, socketOpen, retryOpen, sent, packets, receivedSequences,
           lastSeq, missingSequences, output, written, log, shortIdx, primary,
           attempts, cCall, cSeq, cFrame, cSeqB, cFrameB, dFrame, dRec, dState >>

codecVars == << cCall, cSeq, cFrame, cSeqB, cFrameB, dFrame, dRec, dState >>

encoderVars == << cCall, cSeq, cFrame, cSeqB, cFrameB >>

decoderVars == << dFrame, dRec, dState >>

clientVars == << pc, err, socketOpen, retryOpen, sent, packets, receivedSequences,
                 lastSeq, missingSequences, output, written, log, shortIdx,
                 primary, attempts >>

NoPacket == [ symbol |-> << 0, 0, 0, 0 >>, side |-> 0, quantity |-> 0,
              price |-> 0, sequence |-> 0 ]

ClientInit ==
    /\ pc = "Idle"
    /\ err = "none"
    /\ socketOpen = FALSE
    /\ retryOpen = FALSE
    /\ sent = << >>
    /\ packets = << >>
    /\ receivedSequences = {}
    /\ lastSeq = 0
    /\ missingSequences = {}
    /\ output = << >>
    /\ written = FALSE
    /\ log = << >>
    /\ shortIdx = {}
    /\ primary = << >>
    /\ attempts = << >>

EncoderIdle ==
    /\ cCall = 0
    /\ cSeq = 0
    /\ cFrame = << >>
    /\ cSeqB = 0
    /\ cFrameB = << >>

DecoderIdle ==
    /\ dFrame = << >>
    /\ dRec = NoPacket
    /\ dState = "raw"

Init ==
    /\ ClientInit
    /\ EncoderIdle
    /\ DecoderIdle


(***************************************************************************)
(* Helpers of fetchAndSaveData.                                            *)
(***************************************************************************)
\* if (packets.empty()) (line 115)
NoPacketsReceived_AtMostOne(pkts) == Len(pkts) <= 1

NoPacketsReceived(pkts) == pkts = << >>

\* packets.back().sequence (line 120)
LastSequence_Max(pkts) ==
    CHOOSE m \in { pkts[i].sequence : i \in DOMAIN pkts } :
        \A i \in DOMAIN pkts : pkts[i].sequence <= m

LastSequence(pkts) == pkts[Len(pkts)].sequence

\* receivedSequences.insert(packet.sequence) (line 111)
InsertSeen_Skip(received, packet) == received

InsertSeen(received, packet) == received \cup { packet.sequence }

\* LOG_INFO("Missing sequences detected: " << missingSequences.size()) (line 128)
MissingReport_LastSeq(missing, last) == << "Missing sequences detected", last >>

MissingReport(missing, last) == << "Missing sequences detected", Cardinality(missing) >>

\* LOG_INFO("Sent request: CallType = ..., Sequence = ...") (line 52)
SentReport(frame) == << "Sent request", frame[1], frame[2] >>

\* The loop of lines 122-126, from counter i on, with the set built so far.
RECURSIVE MissingLoop(_, _, _, _)
MissingLoop(i, last, received, missing) ==
    IF i < last
    THEN MissingLoop(i + 1, last, received,
                     IF i \notin received THEN missing \cup {i} ELSE missing)
    ELSE missing

\* Lines 121-126: uint32_t i = 1, missingSequences empty.
DetectMissing_FromZero(last, received) == MissingLoop(0, last, received, {})

DetectMissing(last, received) == MissingLoop(1, last, received, {})

\* The elements of a std::set<uint32_t> in iteration order (ascending).
RECURSIVE SetInOrder(_)
SetInOrder(S) ==
    IF S = {} THEN << >>
    ELSE LET m == CHOOSE x \in S : \A y \in S : x <= y
         IN << m >> \o SetInOrder(S \ {m})

RECURSIVE SetInReverse(_)
SetInReverse(S) ==
    IF S = {} THEN << >>
    ELSE LET m == CHOOSE x \in S : \A y \in S : x >= y
         IN << m >> \o SetInReverse(S \ {m})

\* for (uint32_t seq : missingSequences) (line 131): the sequence visited by
\* iteration number k (1-based).
LoopTarget_Descending(missing, k) == SetInReverse(missing)[k]

LoopTarget(missing, k) == SetInOrder(missing)[k]

\* Lines 137-139: what the recovery loop does to packets with the response.
FoldRecovered_Always(pkts, resp) == Append(pkts, parsePacket(resp.storage))

FoldRecovered(pkts, resp) ==
    IF resp.size # 0 THEN Append(pkts, parsePacket(resp.storage)) ELSE pkts

\* std::sort with the comparator a.sequence < b.sequence (lines 143-145):
\* the results it may produce from the packets with indexes idx.  std::sort
\* is not stable, so packets with equal sequence come out in any order.
RECURSIVE SortResults(_, _)
SortResults(pkts, idx) ==
    IF idx = {} THEN { << >> }
    ELSE LET least == { i \in idx : \A j \in idx : pkts[i].sequence <= pkts[j].sequence }
             heads == { pkts[i] : i \in least }
         IN UNION { LET i == CHOOSE k \in least : pkts[k] = h
                    IN { << h >> \o rest : rest \in SortResults(pkts, idx \ {i}) }
                  : h \in heads }

SortBySequence_Unsorted(pkts) == { pkts }

SortBySequence_Unique(pkts) ==
    SortResults(pkts, { i \in DOMAIN pkts :
                          \A j \in 1..(i - 1) : pkts[j].sequence # pkts[i].sequence })

SortBySequence(pkts) == SortResults(pkts, DOMAIN pkts)


(***************************************************************************)
(* main / fetchAndSaveData, one action per blocking step.                  *)
(*                                                                         *)
(* pc: "Idle" (line 93), "Connected" (line 100), "Streaming" (line 106),   *)
(* "Detect" (line 115), "Recover" (head of the loop, line 131),            *)
(* "RecoverSend" (line 134), "RecoverRecv" (line 136); and, back in main:  *)
(* "Done" (returned after line 157), "NoData" (returned at line 117),      *)
(* "Aborted" (the catch block of line 163), "Crashed" (the process was     *)
(* ended by a trap on an out-of-bounds read).                              *)
(***************************************************************************)

\* An exception leaves fetchAndSaveData: both sockets are destroyed, main
\* catches and logs it (lines 163-165), nothing more is done.
Throw_LeakRetry(what, before) ==
    /\ pc' = "Aborted"
    /\ err' = what
    /\ log' = log \o before \o << << "Exception", what >> >>
    /\ socketOpen' = FALSE
    /\ UNCHANGED retryOpen

Throw(what, before) ==
    /\ pc' = "Aborted"
    /\ err' = what
    /\ log' = log \o before \o << << "Exception", what >> >>
    /\ socketOpen' = FALSE
    /\ retryOpen' = FALSE

\* The process is terminated where it stands.
Trap ==
    /\ pc' = "Crashed"
    /\ socketOpen' = FALSE
    /\ retryOpen' = FALSE
    /\ UNCHANGED << err, log >>

\* Line 96: boost::asio::connect, which throws on failure.
Connect ==
    /\ pc = "Idle"
    /\ \/ /\ pc' = "Connected"
          /\ socketOpen' = TRUE
          /\ log' = Append(log, << "Connected to server." >>)
          /\ UNCHANGED << err, retryOpen >>
       \/ Throw("connect", << >>)
    /\ UNCHANGED << sent, packets, receivedSequences, lastSeq, missingSequences,
                    output, written, shortIdx, primary, attempts, codecVars >>

\* Line 100: sendRequest(socket, 1); boost::asio::write throws on failure.
SendStreamAll ==
    /\ pc = "Connected"
    /\ \/ /\ sent' = Append(sent, sendRequest(CallStreamAll, 0))
          /\ pc' = "Streaming"
          /\ log' = Append(log, SentReport(sendRequest(CallStreamAll, 0)))
          /\ UNCHANGED << err, socketOpen, retryOpen >>
       \/ /\ Throw("send", << >>)
          /\ UNCHANGED sent
    /\ UNCHANGED << packets, receivedSequences, lastSeq, missingSequences,
                    output, written, shortIdx, primary, attempts, codecVars >>

\* Lines 105-112: one iteration of the streaming loop.
ReceivePrimary ==
    /\ pc = "Streaming"
    /\ \E ev \in PrimaryEvents :
         LET resp == receiveResponse(ev) IN
         /\ ev.kind = "bytes" => Len(packets) < MaxStream
         /\ IF resp.threw
            THEN /\ Throw("receive", << << "Receive error" >> >>)
                 /\ UNCHANGED << packets, receivedSequences, shortIdx >>
            ELSE IF resp.size = 0
            THEN /\ pc' = "Detect"
                 /\ log' = Append(log, << "Connection closed by server." >>)
                 /\ UNCHANGED << err, socketOpen, retryOpen, packets,
                                 receivedSequences, shortIdx >>
            ELSE \/ /\ packets' = Append(packets, parsePacket(resp.storage))
                    /\ receivedSequences' =
                          InsertSeen(receivedSequences, parsePacket(resp.storage))
                    /\ log' = Append(log, << "Parsed packet", parsePacket(resp.storage) >>)
                    /\ shortIdx' = IF ReadOutOfBounds(resp)
                                   THEN shortIdx \cup { Len(packets) + 1 }
                                   ELSE shortIdx
                    /\ UNCHANGED << pc, err, socketOpen, retryOpen >>
                 \/ /\ ReadOutOfBounds(resp)
                    /\ Trap
                    /\ UNCHANGED << packets, receivedSequences, shortIdx >>
    /\ UNCHANGED << sent, lastSeq, missingSequences, output, written, primary,
                    attempts, codecVars >>

\* Lines 115-128: no packets, or the last sequence and the missing set.
Detect ==
    /\ pc = "Detect"
    /\ IF NoPacketsReceived(packets)
       THEN /\ pc' = "NoData"
            /\ socketOpen' = FALSE
            /\ log' = Append(log, << "No packets received." >>)
            /\ UNCHANGED << lastSeq, missingSequences, primary >>
       ELSE /\ lastSeq' = LastSequence(packets)
            /\ missingSequences' = DetectMissing(LastSequence(packets), receivedSequences)
            /\ primary' = packets
            /\ log' = Append(log, MissingReport(
                           DetectMissing(LastSequence(packets), receivedSequences),
                           LastSequence(packets)))
            /\ pc' = "Recover"
            /\ UNCHANGED socketOpen
    /\ UNCHANGED << err, retryOpen, sent, packets, receivedSequences, output,
                    written, shortIdx, attempts, codecVars >>

\* The sequence the recovery loop is at.
CurrentTarget == attempts[Len(attempts)].seq

SetResp(kind, rec) ==
    [attempts EXCEPT ![Len(attempts)] = [seq |-> CurrentTarget, resp |-> kind, rec |-> rec]]

\* Lines 131-133: the loop takes the next missing sequence and connects.
RecoverConnect ==
    /\ pc = "Recover"
    /\ Len(attempts) < Cardinality(missingSequences)
    /\ LET seq == LoopTarget(missingSequences, Len(attempts) + 1) IN
       \/ /\ attempts' = Append(attempts, [seq |-> seq, resp |-> "none", rec |-> NoPacket])
          /\ retryOpen' = TRUE
          /\ pc' = "RecoverSend"
          /\ UNCHANGED << err, socketOpen, log >>
       \/ /\ attempts' = Append(attempts, [seq |-> seq, resp |-> "connfail", rec |-> NoPacket])
          /\ Throw("connect", << >>)
    /\ UNCHANGED << sent, packets, receivedSequences, lastSeq, missingSequences,
                    output, written, shortIdx, primary, codecVars >>

\* Line 134: sendRequest(retry_socket, 2, seq).
RecoverSend ==
    /\ pc = "RecoverSend"
    /\ \/ /\ sent' = Append(sent, sendRequest(CallResend, CurrentTarget))
          /\ pc' = "RecoverRecv"
          /\ log' = Append(log, SentReport(sendRequest(CallResend, CurrentTarget)))
          /\ UNCHANGED << err, socketOpen, retryOpen, attempts >>
       \/ /\ attempts' = SetResp("sendfail", NoPacket)
          /\ Throw("send", << >>)
          /\ UNCHANGED sent
    /\ UNCHANGED << packets, receivedSequences, lastSeq, missingSequences,
                    output, written, shortIdx, primary, codecVars >>

\* Lines 136-140: the single receive of the iteration, and the end of the
\* iteration, where retry_socket goes out of scope.
RecoverReceive ==
    /\ pc = "RecoverRecv"
    /\ \E ev \in RecoveryEvents(CurrentTarget) :
         LET resp == receiveResponse(ev) IN
         IF resp.threw
         THEN /\ attempts' = SetResp("error", NoPacket)
              /\ Throw("receive", << << "Receive error" >> >>)
              /\ UNCHANGED << packets, shortIdx >>
         ELSE \/ /\ packets' = FoldRecovered(packets, resp)
                 /\ attempts' = IF resp.size = 0
                                THEN SetResp("empty", NoPacket)
                                ELSE SetResp("data", parsePacket(resp.storage))
                 /\ shortIdx' = IF ReadOutOfBounds(resp)
                                THEN shortIdx \cup { Len(packets) + 1 }
                                ELSE shortIdx
                 /\ log' = IF resp.size = 0
                           THEN Append(log, << "Connection closed by server." >>)
                           ELSE Append(log, << "Parsed packet", parsePacket(resp.storage) >>)
                 /\ retryOpen' = FALSE
                 /\ pc' = "Recover"
                 /\ UNCHANGED << err, socketOpen >>
              \/ /\ ReadOutOfBounds(resp)
                 /\ attempts' = SetResp("trap", NoPacket)
                 /\ Trap
                 /\ UNCHANGED << packets, shortIdx >>
    /\ UNCHANGED << sent, receivedSequences, lastSeq, missingSequences, output,
                    written, primary, codecVars >>

\* Lines 142-157: the loop is over; sort, write the file, return.
Assemble ==
    /\ pc = "Recover"
    /\ Len(attempts) = Cardinality(missingSequences)
    /\ \E sorted \in SortBySequence(packets) :
         /\ packets' = sorted
         /\ output' = sorted
    /\ written' = TRUE
    /\ log' = Append(log, << "Data saved to output.json" >>)
    /\ pc' = "Done"
    /\ socketOpen' = FALSE
    /\ UNCHANGED << err, retryOpen, sent, receivedSequences, lastSeq,
                    missingSequences, shortIdx, primary, attempts, codecVars >>

Next ==
    \/ Connect
    \/ SendStreamAll
    \/ ReceivePrimary
    \/ Detect
    \/ RecoverConnect
    \/ RecoverSend
    \/ RecoverReceive
    \/ Assemble

Spec == Init /\ [][Next]_vars

\* The program is sequential and every blocking call (connect, write,
\* read_some) returns: a step that can be taken is taken.  The server closes
\* the primary channel at the latest after MaxStream frames.
SpecLive == Init /\ [][Next]_vars /\ WF_vars(Next)

(***************************************************************************)
(* The request encoder on its own: sendRequest applied to 32-bit sequence  *)
(* numbers as the recovery loop passes them (line 134), and to the         *)
(* stream-all call (line 100).                                             *)
(***************************************************************************)
CodecInit ==
    /\ ClientInit
    /\ DecoderIdle
    /\ cCall = 0
    /\ cSeq \in ReqSeqs
    /\ cFrame = << >>
    /\ cSeqB \in { cSeq + d : d \in PairOffsets }
    /\ cFrameB = << >>

EncodeResend ==
    /\ cCall = 0
    /\ cCall' = CallResend
    /\ cFrame' = sendRequest(CallResend, cSeq)
    /\ UNCHANGED << cSeq, cSeqB, cFrameB, decoderVars, clientVars >>

\* The request of a later iteration of the recovery loop (line 134).
EncodeSecond ==
    /\ cCall = CallResend
    /\ cFrameB = << >>
    /\ cFrameB' = sendRequest(CallResend, cSeqB)
    /\ UNCHANGED << cCall, cSeq, cFrame, cSeqB, decoderVars, clientVars >>

EncodeStreamAll ==
    /\ cCall = 0
    /\ cCall' = CallStreamAll
    /\ cFrame' = sendRequest(CallStreamAll, 0)
    /\ UNCHANGED << cSeq, cSeqB, cFrameB, decoderVars, clientVars >>

CodecNext ==
    \/ EncodeResend
    \/ EncodeSecond
    \/ EncodeStreamAll

SpecCodec == CodecInit /\ [][CodecNext]_vars

(***************************************************************************)
(* The response decoder on its own: a full 17-byte read (lines 57-70)      *)
(* handed to parsePacket (line 109).                                       *)
(***************************************************************************)
DecodeInit ==
    /\ ClientInit
    /\ EncoderIdle
    /\ dFrame \in DecodeFrames
    /\ dRec = NoPacket
    /\ dState = "raw"

Decode ==
    /\ dState = "raw"
    /\ dRec' = parsePacket(receiveResponse([kind |-> "bytes", bytes |-> dFrame]).storage)
    /\ dState' = "decoded"
    /\ UNCHANGED << dFrame, encoderVars, clientVars >>

DecodeNext == Decode

SpecDecode == DecodeInit /\ [][DecodeNext]_vars


(***************************************************************************)
(* Vocabulary of the properties.                                           *)
(***************************************************************************)
Range(s) == { s[i] : i \in DOMAIN s }

SeqValues(pkts) == { pkts[i].sequence : i \in DOMAIN pkts }

SortedBySequence(pkts) ==
    \A i, j \in DOMAIN pkts : i < j => pkts[i].sequence <= pkts[j].sequence

DistinctSequences(pkts) ==
    \A i, j \in DOMAIN pkts : i # j => pkts[i].sequence # pkts[j].sequence

Count(s, x) == Cardinality({ i \in DOMAIN s : s[i] = x })

\* a and b hold the same records, each the same number of times
SameRecords(a, b) ==
    /\ Len(a) = Len(b)
    /\ \A x \in Range(a) \cup Range(b) : Count(a, x) = Count(b, x)

\* the records decoded from the non-empty recovery responses, in order
RECURSIVE RecoveredFrom(_)
RecoveredFrom(att) ==
    IF att = << >> THEN << >>
    ELSE IF Head(att).resp = "data"
         THEN << Head(att).rec >> \o RecoveredFrom(Tail(att))
         ELSE RecoveredFrom(Tail(att))

\* the retrieve-one requests the client has written, in order
ResendFrames == SelectSeq(sent, LAMBDA f : f[1] = CallResend)

\* every recovery request so far got a non-empty response
FullyRecovers == \A k \in DOMAIN attempts : attempts[k].resp = "data"

\* the primary stream delivered each sequence number once, all in [1, M]
PrimaryWellFormed ==
    /\ DistinctSequences(primary)
    /\ SeqValues(primary) \subseteq 1..lastSeq

\* every recovery response decoded to the sequence number that was asked for
ResponsesMatch ==
    \A k \in DOMAIN attempts :
        attempts[k].resp = "data" => attempts[k].rec.sequence = attempts[k].seq

AfterDetect == pc \in {"Recover", "RecoverSend", "RecoverRecv", "Done"}

(***************************************************************************)
(* C1.  As claimed: whenever a run whose recovery requests all returned a  *)
(* non-empty response writes its output, the output is sorted ascending by *)
(* sequence, has no two records with the same sequence, and its sequence   *)
(* values are exactly 1..M, M the sequence of the last primary record.     *)
(* (Stated for the runs in which every response was a full 17-byte frame,  *)
(* so that a violation owes nothing to the out-of-bounds read of C8.)      *)
(***************************************************************************)
C1_AsClaimed ==
    (pc = "Done" /\ FullyRecovers /\ shortIdx = {}) =>
        /\ SortedBySequence(output)
        /\ DistinctSequences(output)
        /\ SeqValues(output) = 1..lastSeq

(***************************************************************************)
(* C1, amended.  The same conclusion for the runs in which, moreover, the  *)
(* primary stream delivered pairwise distinct sequence numbers, all within *)
(* [1, M], and every recovery response carried the sequence number that    *)
(* was requested.                                                          *)
(***************************************************************************)
C1_Amended ==
    (pc = "Done" /\ FullyRecovers /\ PrimaryWellFormed /\ ResponsesMatch) =>
        /\ written
        /\ SortedBySequence(output)
        /\ DistinctSequences(output)
        /\ SeqValues(output) = 1..lastSeq

\* a run that recovered a gap, with an out-of-order primary stream
C1_Witness ==
    /\ pc = "Done"
    /\ Len(attempts) = 1
    /\ FullyRecovers /\ PrimaryWellFormed /\ ResponsesMatch
    /\ ~SortedBySequence(primary)

(***************************************************************************)
(* C2.  Once the primary stream has ended with records, the missing set is *)
(* exactly { i : 1 <= i < M, i not in S }, S the seen set and M the last   *)
(* received sequence; M itself is not in it.                               *)
(***************************************************************************)
C2_MissingSet ==
    primary # << >> =>
        LET M == primary[Len(primary)].sequence
            S == SeqValues(primary)
        IN /\ missingSequences = { i \in 1..(M - 1) : i \notin S }
           /\ M \notin missingSequences

\* S = {1,2,4}, M = 4: the missing set is {3}
C2_Witness ==
    /\ SeqValues(primary) = {1, 2, 4}
    /\ primary[Len(primary)].sequence = 4
    /\ missingSequences = {3}
    /\ pc = "Recover"

(***************************************************************************)
(* C3.  The recovery loop visits only missing sequences, in strictly       *)
(* ascending order (so each at most once); every retrieve-one request      *)
(* written is the one for the sequence visited; with an empty missing set  *)
(* no recovery connection is opened and no retrieve-one request is sent.   *)
(***************************************************************************)
C3_RecoveryOrder ==
    /\ \A k \in DOMAIN attempts : attempts[k].seq \in missingSequences
    /\ \A j, k \in DOMAIN attempts : j < k => attempts[j].seq < attempts[k].seq
    /\ Len(ResendFrames) <= Len(attempts)
    /\ \A k \in DOMAIN ResendFrames :
          ResendFrames[k] = << CallResend, attempts[k].seq % 256 >>
    /\ retryOpen => attempts # << >> /\ attempts[Len(attempts)].resp = "none"
    /\ missingSequences = {} => (attempts = << >> /\ ResendFrames = << >> /\ ~retryOpen)

\* three gaps, each requested once, in order
C3_Witness ==
    /\ pc = "Done"
    /\ Len(attempts) = 3
    /\ ResendFrames = << <<2, 1>>, <<2, 2>>, <<2, 3>> >>

(***************************************************************************)
(* C4.  An empty recovery response does not abort the run: right after it  *)
(* the client is back at the head of the recovery loop (or has finished),  *)
(* with no error; and a finished run with an empty response has attempted  *)
(* every missing sequence and written exactly the primary records plus the *)
(* records of the non-empty recovery responses, sorted by sequence.        *)
(***************************************************************************)
C4_EmptyResponse ==
    /\ (attempts # << >> /\ attempts[Len(attempts)].resp = "empty") =>
          (pc \in {"Recover", "Done"} /\ err = "none")
    /\ (pc = "Done" /\ \E k \in DOMAIN attempts : attempts[k].resp = "empty") =>
          /\ { attempts[k].seq : k \in DOMAIN attempts } = missingSequences
          /\ written
          /\ SortedBySequence(output)
          /\ SameRecords(output, primary \o RecoveredFrom(attempts))

\* primary {1,2,4}, empty response for 3: the 3 original records are output
C4_Witness ==
    /\ pc = "Done"
    /\ SeqValues(primary) = {1, 2, 4} /\ Len(primary) = 3
    /\ Len(attempts) = 1 /\ attempts[1].seq = 3 /\ attempts[1].resp = "empty"
    /\ written /\ Len(output) = 3 /\ SameRecords(output, primary)


(***************************************************************************)
(* C5.  A primary stream that ends without a single record ends the run in *)
(* the no-data failure, and only such a stream does: the client goes on to *)
(* recovery only with records, and in the no-data failure it has opened no *)
(* recovery connection, sent no retrieve-one request and written nothing.  *)
(***************************************************************************)
C5_NoData ==
    /\ AfterDetect => packets # << >>
    /\ pc = "NoData" =>
          /\ packets = << >>
          /\ attempts = << >>
          /\ ~retryOpen
          /\ sent = << << CallStreamAll, 0 >> >>
          /\ ~written
          /\ output = << >>

C5_Witness == pc = "NoData" /\ ~socketOpen /\ Len(sent) = 1

(***************************************************************************)
(* C6.  As claimed: after an error in the primary stream phase, be it a    *)
(* transport failure or a frame that cannot be decoded (a short read, a    *)
(* side byte that is neither 'B' nor 'S'), no recovery request is made and *)
(* nothing is written.                                                     *)
(***************************************************************************)
C6_PrimaryErrorAborts ==
    ( \/ (pc = "Aborted" /\ primary = << >>)
      \/ \E i \in DOMAIN primary :
            i \in shortIdx \/ primary[i].side \notin {SideBuy, SideSell} )
    => (attempts = << >> /\ ~written /\ output = << >>)

(***************************************************************************)
(* C7.  As claimed: after the receive of one recovery attempt has failed   *)
(* the run is not aborted: the client is still in the recovery loop, or    *)
(* has finished and written the output.                                    *)
(***************************************************************************)
C7_RecoveryErrorContained ==
    (\E k \in DOMAIN attempts : attempts[k].resp = "error")
    => (pc # "Aborted" /\ err = "none")

(***************************************************************************)
(* C8.  As claimed: no record is ever appended to the accumulation list    *)
(* for a non-empty response of fewer than 17 bytes.                        *)
(***************************************************************************)
C8_ShortNeverDecoded == shortIdx = {}

(***************************************************************************)
(* C9.  As claimed: every record of the accumulation list that was decoded *)
(* from a full 17-byte frame, and every record of the output, has side     *)
(* 'B' or 'S'.                                                             *)
(***************************************************************************)
C9_SideIsBuyOrSell ==
    /\ pc # "Done" =>
          \A i \in DOMAIN packets :
              i \notin shortIdx => packets[i].side \in {SideBuy, SideSell}
    /\ shortIdx = {} =>
          \A i \in DOMAIN output : output[i].side \in {SideBuy, SideSell}

(***************************************************************************)
(* C10.  The frame of a retrieve-one request for the 32-bit sequence s is  *)
(* the two bytes [2, s mod 256]; the frame of the stream-all request has   *)
(* two bytes, the first of which is 1.                                     *)
(***************************************************************************)
C10_RequestFrames ==
    /\ cCall = CallResend => cFrame = << 2, cSeq % 256 >>
    /\ cCall = CallStreamAll => (Len(cFrame) = 2 /\ cFrame[1] = 1)

\* sequence 257 is requested as [2, 1]
C10_Witness == cCall = CallResend /\ cSeq = 257 /\ cFrame = << 2, 1 >>

(***************************************************************************)
(* C11.  M, the bound of the gap analysis, is the sequence number of the   *)
(* last record appended in the primary phase, whatever the arrival order   *)
(* (also when an earlier record has a larger sequence number), and every   *)
(* missing sequence lies below it.                                         *)
(***************************************************************************)
C11_LastNotMax ==
    primary # << >> =>
        /\ lastSeq = primary[Len(primary)].sequence
        /\ \A m \in missingSequences : m < primary[Len(primary)].sequence

\* an earlier record of the stream has a larger sequence number than M
C11_Witness ==
    /\ pc = "Recover"
    /\ Len(primary) = 3
    /\ primary[1].sequence = 4
    /\ lastSeq = 3
    /\ missingSequences = {1, 2}

(***************************************************************************)
(* C12.  As claimed: from the end of the primary stream phase on, every    *)
(* sequence number in the accumulated records and in the seen set lies in  *)
(* [1, M].  (Stated for the runs in which every response was a full        *)
(* 17-byte frame, so that a violation owes nothing to the out-of-bounds    *)
(* read of C8.)                                                            *)
(***************************************************************************)
C12_AsClaimed ==
    (primary # << >> /\ shortIdx = {}) =>
        /\ SeqValues(packets) \subseteq 1..lastSeq
        /\ receivedSequences \subseteq 1..lastSeq

(***************************************************************************)
(* C12, amended.  The same for the runs in which the primary stream        *)
(* delivered only sequence numbers within [1, M] (none is 0 and the last   *)
(* record carries the largest) and every recovery response carried the     *)
(* sequence number that was requested.                                     *)
(***************************************************************************)
C12_Amended ==
    (primary # << >> /\ SeqValues(primary) \subseteq 1..lastSeq /\ ResponsesMatch) =>
        /\ SeqValues(packets) \subseteq 1..lastSeq
        /\ receivedSequences \subseteq 1..lastSeq

\* two gaps recovered, each with the record that was asked for
C12_Witness ==
    /\ pc = "Recover"
    /\ Len(attempts) = 2
    /\ FullyRecovers /\ ResponsesMatch
    /\ SeqValues(primary) \subseteq 1..lastSeq
    /\ Len(packets) = Len(primary) + 2

(***************************************************************************)
(* Vocabulary of the log.                                                  *)
(***************************************************************************)
\* the positions of the log lines that carry a count of sequences
CountLines == { i \in DOMAIN log : log[i][1] = "Missing sequences detected" }

\* the positions of the log lines of the retrieve-one requests
ResendLines ==
    { i \in DOMAIN log : log[i][1] = "Sent request" /\ log[i][2] = CallResend }

\* the missing sequences whose attempt did not bring a record
Unrecovered ==
    missingSequences \ { attempts[k].seq : k \in { j \in DOMAIN attempts :
                                                     attempts[j].resp = "data" } }

BigEndian(f, i) == ((f[i] * 256 + f[i + 1]) * 256 + f[i + 2]) * 256 + f[i + 3]

\* the four bytes of an unsigned 32-bit value, most significant first
WordOf(n) ==
    << (n \div 16777216) % 256, (n \div 65536) % 256, (n \div 256) % 256, n % 256 >>

\* a record written back in the layout of the response frame
EncodeRecord(rec) ==
    [i \in 1..4 |-> ToUChar(rec.symbol[i])] \o << ToUChar(rec.side) >>
    \o WordOf(rec.quantity) \o WordOf(rec.price) \o WordOf(rec.sequence)

C14_DecodeRoundTrip ==
    dState = "decoded" =>
        /\ \A i \in 1..4 : ToUChar(dRec.symbol[i]) = dFrame[i]
        /\ ToUChar(dRec.side) = dFrame[5]
        /\ dRec.quantity = BigEndian(dFrame, 6)
        /\ dRec.price = BigEndian(dFrame, 10)
        /\ dRec.sequence = BigEndian(dFrame, 14)
        /\ dRec.quantity >= 0 /\ dRec.price >= 0 /\ dRec.sequence >= 0
        /\ EncodeRecord(dRec) = dFrame

\* bytes above 127 in the symbol and in all three fields
C14_Witness ==
    /\ dState = "decoded"
    /\ dFrame = << 32, 0, 200, 255, 83, 1, 128, 200, 255, 0, 255, 0, 128,
                   127, 255, 255, 255 >>
    /\ dRec.quantity = 25217279
    /\ dRec.price = 16711808
    /\ dRec.sequence = 2147483647

(***************************************************************************)
(* C15.  As claimed: at most one channel is open at any moment (the        *)
(* primary channel is closed before the first recovery channel is opened). *)
(***************************************************************************)
C15_AsClaimed == ~(socketOpen /\ retryOpen)

(***************************************************************************)
(* C15, amended.  A recovery channel is open only during its own           *)
(* iteration of the recovery loop, so each one is closed before the next   *)
(* is opened and on every exit path; the primary channel stays open from   *)
(* its connect until the run leaves fetchAndSaveData, through the whole    *)
(* recovery phase; once the run has ended no channel is open.              *)
(***************************************************************************)
C15_Amended ==
    /\ retryOpen <=> pc \in {"RecoverSend", "RecoverRecv"}
    /\ retryOpen => (attempts # << >> /\ attempts[Len(attempts)].resp = "none")
    /\ socketOpen <=> pc \in {"Connected", "Streaming", "Detect", "Recover",
                              "RecoverSend", "RecoverRecv"}
    /\ pc \in {"Done", "NoData", "Aborted", "Crashed"} => (~socketOpen /\ ~retryOpen)

\* the second recovery channel is open, and so is the primary one
C15_Witness ==
    /\ pc = "RecoverRecv"
    /\ Len(attempts) = 2
    /\ socketOpen /\ retryOpen

(***************************************************************************)
(* C16.  As claimed: records with the same sequence value come out in the  *)
(* order in which they were appended to the accumulation list, that is,    *)
(* the output is the stable sort of the list.                              *)
(***************************************************************************)
\* s without its element at position i
RemoveAt(s, i) == SubSeq(s, 1, i - 1) \o SubSeq(s, i + 1, Len(s))

\* s sorted by sequence, records of equal sequence kept in their order
RECURSIVE StableSort(_)
StableSort(s) ==
    IF s = << >> THEN << >>
    ELSE LET i == CHOOSE k \in DOMAIN s :
                     /\ \A j \in DOMAIN s : s[k].sequence <= s[j].sequence
                     /\ \A j \in 1..(k - 1) : s[j].sequence # s[k].sequence
         IN << s[i] >> \o StableSort(RemoveAt(s, i))

C16_FirstSeenOrder ==
    pc = "Done" => output = StableSort(primary \o RecoveredFrom(attempts))

(***************************************************************************)
(* C17.  As claimed: the retrieve-one requests of two distinct sequence    *)
(* numbers are distinct frames, whatever the size of the numbers.          *)
(***************************************************************************)
BothEncoded == cCall = CallResend /\ cFrame # << >> /\ cFrameB # << >>

C17_AsClaimed ==
    (BothEncoded /\ cSeq # cSeqB) => cFrame # cFrameB

(***************************************************************************)
(* C17, amended.  The retrieve-one requests of two sequence numbers are    *)
(* distinct frames exactly when the numbers differ modulo 256; so the      *)
(* requests of distinct missing sequences are distinct when M <= 256, and  *)
(* two missing sequences that are 256 apart are requested with the same    *)
(* frame.                                                                  *)
(***************************************************************************)
C17_Amended ==
    BothEncoded =>
        /\ (cSeqB - cSeq) % 256 # 0 => cFrame # cFrameB
        /\ (cSeqB - cSeq) % 256 = 0 => cFrame = cFrameB
        /\ (cSeq < 256 /\ cSeqB < 256 /\ cSeq # cSeqB) => cFrame # cFrameB

\* 300 and 301 are requested with different frames
C17_Witness ==
    /\ BothEncoded
    /\ cSeq = 300 /\ cSeqB = 301
    /\ cFrame = << 2, 44 >> /\ cFrameB = << 2, 45 >>

(***************************************************************************)
(* C18.  When every blocking call returns and the server closes the        *)
(* primary channel: the streaming loop is left for the gap analysis        *)
(* exactly by the receive that returns empty (any other receive keeps the  *)
(* loop going with one more record, or ends the run with an error); the    *)
(* recovery loop makes at most M - 1 iterations (none when M <= 1), with   *)
(* at most one receive each; and the run eventually ends, with the output  *)
(* written or with an error.                                               *)
(***************************************************************************)
Ended == pc \in {"Done", "NoData", "Aborted", "Crashed"}

\* the log lines printed by receiveResponse / parsePacket in the recovery phase
RecoveryReceiveLines ==
    { i \in DOMAIN log :
        /\ log[i][1] \in { "Connection closed by server.", "Parsed packet", "Receive error" }
        /\ \E j \in CountLines : j < i }

StreamingStep ==
    pc = "Streaming" =>
        /\ pc' = "Detect" <=>
              (log' = Append(log, << "Connection closed by server." >>) /\ packets' = packets)
        /\ pc' = "Streaming" => Len(packets') = Len(packets) + 1
        /\ pc' \in {"Streaming", "Detect", "Aborted", "Crashed"}

RecoveryBounded ==
    /\ Len(attempts) <= Cardinality(1..(lastSeq - 1))
    /\ Cardinality(RecoveryReceiveLines) <= Len(attempts)
    /\ pc = "Done" => written
    /\ pc \in {"NoData", "Aborted"} => (~written /\ Len(log) > 0)

C18_Terminates ==
    /\ [][StreamingStep]_vars
    /\ []RecoveryBounded
    /\ <>Ended

\* a run that ended after M - 1 = 3 recovery iterations
C18_Witness ==
    /\ pc = "Done"
    /\ lastSeq = 4
    /\ Len(attempts) = 3
    /\ Cardinality(RecoveryReceiveLines) = 3

(***************************************************************************)
(* C19.  In every run that writes output, no received record is lost or    *)
(* invented: the output holds the same records, each as many times, as the *)
(* accumulation list (the records decoded in the primary phase followed by *)
(* the records decoded from the non-empty recovery responses); every       *)
(* primary record is in it; its length is the number of primary records    *)
(* plus the number of non-empty recovery responses; and the output is      *)
(* written once, after every missing sequence has had its attempt, as the  *)
(* last thing the run does.  A run that has not written has no output.     *)
(***************************************************************************)
SavedLines == { i \in DOMAIN log : log[i] = << "Data saved to output.json" >> }

NonEmptyResponses == { k \in DOMAIN attempts : attempts[k].resp = "data" }

C19_NothingLostOrInvented ==
    /\ written =>
         /\ pc = "Done"
         /\ SameRecords(output, primary \o RecoveredFrom(attempts))
         /\ \A i \in DOMAIN primary : Count(output, primary[i]) >= Count(primary, primary[i])
         /\ Len(output) = Len(primary) + Cardinality(NonEmptyResponses)
         /\ Len(attempts) = Cardinality(missingSequences)
         /\ \A k \in DOMAIN attempts : attempts[k].resp \in {"data", "empty"}
         /\ SavedLines = { Len(log) }
    /\ ~written => (output = << >> /\ SavedLines = {})

\* written, with a sequence received twice, a recovered record and an empty
\* recovery response
C19_Witness ==
    /\ written
    /\ ~DistinctSequences(primary)
    /\ NonEmptyResponses # {}
    /\ \E k \in DOMAIN attempts : attempts[k].resp = "empty"

(***************************************************************************)
(* C20.  As claimed: once the recovery pass is over, the seen-sequence set *)
(* equals the set of sequence values of the accumulation list, each        *)
(* recovered record having been added to both.  (Stated for the runs in    *)
(* which every response was a full 17-byte frame.)                         *)
(***************************************************************************)
RecoveryPassOver ==
    \/ pc = "Done"
    \/ pc = "Recover" /\ Len(attempts) = Cardinality(missingSequences)

====
